---- MODULE Spec2Model ----
(***************************************************************************)
(* The asset daemon cursor of dagster/_core/definitions/                   *)
(* asset_daemon_cursor.py: the per-asset cursor (AssetDaemonAssetCursor),  *)
(* the persisted cursor (AssetDaemonCursor), its update, and its two wire  *)
(* formats.                                                                *)
(*                                                                         *)
(* Optional values are sequences: None is <<>> and a present value v is    *)
(* <<v>>.  Python truthiness of an Optional[int] is Truthy.                *)
(***************************************************************************)
EXTENDS Integers, Sequences, FiniteSets, TLC

VARIABLES cursor, asset_cursors, stored, last

vars == <<cursor, asset_cursors, stored, last>>

(***************************************************************************)
(* Bounds of the model.                                                    *)
(***************************************************************************)
MaxStorageId == 2
MaxEvaluationId == 1
MaxTime == 1
MaxPartition == 1
MaxCursors == 2
MaxEvaluations == 2

StorageIds == 0..MaxStorageId
EvaluationIds == 0..MaxEvaluationId
Times == 0..MaxTime
PartitionKeys == 0..MaxPartition

None == <<>>
Some(v) == <<v>>
Optional(S) == {None} \cup {Some(v) : v \in S}

\* bool(x) of an Optional[int]: None and 0 are falsy
Truthy(x) == x # None /\ x[1] # 0

\* Python's "x or y" on Optional[int]
PyOr(x, y) == IF Truthy(x) THEN x ELSE y

Range(s) == {s[i] : i \in DOMAIN s}

\* the sequences over S of length at most n
SeqsUpTo(S, n) == UNION {[1..m -> S] : m \in 0..n}

RECURSIVE SetToSeq(_)
SetToSeq(S) ==
    IF S = {} THEN <<>>
    ELSE LET x == CHOOSE y \in S : TRUE IN <<x>> \o SetToSeq(S \ {x})

(***************************************************************************)
(* AssetKey and its user string.  Keys have single-component paths:        *)
(* to_user_string joins the path, from_user_string splits it.              *)
(***************************************************************************)
KeyStrings == {"a", "p", "d", "o"}

from_user_string(s) == <<s>>

to_user_string(key) == key[1]

AssetKeys == {from_user_string(s) : s \in KeyStrings}

(***************************************************************************)
(* Partitions definitions and partitions subsets.  A time window is named  *)
(* by its start, which is also its partition key.                          *)
(***************************************************************************)
NoPartitionsDef == [kind |-> "none", start |-> 0]
TimeWindowPartitionsDefinition == [kind |-> "time_window", start |-> 1]
StaticPartitionsDefinition == [kind |-> "static", start |-> 0]

PartitionsDefs == {NoPartitionsDef, TimeWindowPartitionsDefinition, StaticPartitionsDefinition}

NoSubset == [kind |-> "none", partition_keys |-> {}]

empty_subset(partitions_def) == [kind |-> partitions_def.kind, partition_keys |-> {}]

subset_with_partition_keys(partitions_def, keys) ==
    [kind |-> partitions_def.kind, partition_keys |-> keys]

included_time_windows(subset) == subset.partition_keys

\* PartitionsSubset.__or__
subset_or(s1, s2) == [kind |-> s1.kind, partition_keys |-> s1.partition_keys \cup s2.partition_keys]

\* PartitionsSubset.serialize: the encoding carries the scheme it was written under
subset_serialize(subset) == [format |-> subset.kind, windows |-> subset.partition_keys]

\* PartitionsDefinition.deserialize_subset raises on an encoding of another scheme
deserialize_subset_fails(partitions_def, serialized_subset) ==
    serialized_subset.format # partitions_def.kind

deserialize_subset(partitions_def, serialized_subset) ==
    [kind |-> partitions_def.kind, partition_keys |-> serialized_subset.windows]

(***************************************************************************)
(* The asset graph: "a" an unpartitioned root, "p" a time-window           *)
(* partitioned root, "d" a statically partitioned asset downstream of "a", *)
(* "o" an observable source asset (not materializable).                    *)
(***************************************************************************)
asset_graph ==
    [root_asset_keys |-> {<<"a">>, <<"p">>},
     materializable_asset_keys |-> {<<"a">>, <<"p">>, <<"d">>},
     partitions_defs |-> [k \in AssetKeys |->
         CASE k = <<"p">> -> TimeWindowPartitionsDefinition
           [] k = <<"d">> -> StaticPartitionsDefinition
           [] OTHER -> NoPartitionsDef]]

get_partitions_def(graph, key) == graph.partitions_defs[key]

(***************************************************************************)
(* AssetSubset: an asset key with either a boolean or a partitions subset. *)
(***************************************************************************)
AssetSubset(asset_key, partitioned, b, subset) ==
    [asset_key |-> asset_key, is_partitioned |-> partitioned,
     bool_value |-> b, subset_value |-> subset]

BoolAssetSubset(asset_key, b) == AssetSubset(asset_key, FALSE, b, NoSubset)

PartitionedAssetSubset(asset_key, subset) == AssetSubset(asset_key, TRUE, FALSE, subset)

\* AssetSubset.empty
AssetSubset_empty(asset_key, partitions_def) ==
    IF partitions_def = NoPartitionsDef
    THEN BoolAssetSubset(asset_key, FALSE)
    ELSE PartitionedAssetSubset(asset_key, empty_subset(partitions_def))

AssetKeyPartitionKey(asset_key, partition_key) ==
    [asset_key |-> asset_key, partition_key |-> partition_key]

\* AssetSubset.asset_partitions
asset_partitions(s) ==
    IF ~s.is_partitioned
    THEN IF s.bool_value THEN {AssetKeyPartitionKey(s.asset_key, None)} ELSE {}
    ELSE {AssetKeyPartitionKey(s.asset_key, Some(pk)) : pk \in s.subset_value.partition_keys}

\* AssetSubset.from_asset_partitions_set
from_asset_partitions_set(asset_key, partitions_def, asset_partitions_set) ==
    IF partitions_def = NoPartitionsDef
    THEN BoolAssetSubset(asset_key, asset_partitions_set # {})
    ELSE PartitionedAssetSubset(asset_key,
            subset_with_partition_keys(partitions_def,
                {ap.partition_key[1] : ap \in {x \in asset_partitions_set : x.partition_key # None}}))

\* AssetSubset.__or__ needs both sides of one type
AssetSubset_or_fails(s1, s2) == s1.is_partitioned # s2.is_partitioned

AssetSubset_or(s1, s2) ==
    IF ~s1.is_partitioned
    THEN BoolAssetSubset(s1.asset_key, s1.bool_value \/ s2.bool_value)
    ELSE PartitionedAssetSubset(s1.asset_key, subset_or(s1.subset_value, s2.subset_value))

(***************************************************************************)
(* AutoMaterializeAssetEvaluation: opaque but for its key and is_empty.    *)
(***************************************************************************)
Evaluation(asset_key, is_empty) == [asset_key |-> asset_key, is_empty |-> is_empty]

serialize_value(evaluation) ==
    [key |-> to_user_string(evaluation.asset_key), empty |-> evaluation.is_empty]

deserialize_value(serialized_evaluation) ==
    Evaluation(from_user_string(serialized_evaluation.key), serialized_evaluation.empty)

(***************************************************************************)
(* AssetDaemonAssetCursor                                                  *)
(***************************************************************************)
AssetDaemonAssetCursor(asset_key, latest_storage_id, latest_evaluation_timestamp, latest_evaluation, subset) ==
    [asset_key |-> asset_key,
     latest_storage_id |-> latest_storage_id,
     latest_evaluation_timestamp |-> latest_evaluation_timestamp,
     latest_evaluation |-> latest_evaluation,
     materialized_requested_or_discarded_subset |-> subset]

newly_handled_subset(self, graph, newly_materialized_subset, requested, discarded) ==
    from_asset_partitions_set(self.asset_key, get_partitions_def(graph, self.asset_key),
        asset_partitions(newly_materialized_subset) \cup requested \cup discarded)

\* AssetDaemonAssetCursor.with_updates raises when the union does
asset_with_updates_fails(self, graph, newly_materialized_subset, requested, discarded) ==
    /\ self.asset_key \in graph.root_asset_keys
    /\ AssetSubset_or_fails(self.materialized_requested_or_discarded_subset,
            newly_handled_subset(self, graph, newly_materialized_subset, requested, discarded))

\* mutant: the root check dropped
asset_with_updates_any_asset(self, graph, newly_materialized_subset, requested, discarded) ==
    [self EXCEPT !.materialized_requested_or_discarded_subset =
        AssetSubset_or(self.materialized_requested_or_discarded_subset,
            newly_handled_subset(self, graph, newly_materialized_subset, requested, discarded))]

\* mutant: the new subset replaces the handled subset instead of joining it
asset_with_updates_overwrite(self, graph, newly_materialized_subset, requested, discarded) ==
    IF self.asset_key \notin graph.root_asset_keys
    THEN self
    ELSE [self EXCEPT !.materialized_requested_or_discarded_subset =
            newly_handled_subset(self, graph, newly_materialized_subset, requested, discarded)]

asset_with_updates(self, graph, newly_materialized_subset, requested, discarded) ==
    IF self.asset_key \notin graph.root_asset_keys
    THEN self
    ELSE [self EXCEPT !.materialized_requested_or_discarded_subset =
            AssetSubset_or(self.materialized_requested_or_discarded_subset,
                newly_handled_subset(self, graph, newly_materialized_subset, requested, discarded))]

(***************************************************************************)
(* AssetDaemonCursor                                                       *)
(***************************************************************************)
AssetDaemonCursor(latest_storage_id, handled_root_asset_keys, handled_root_partitions_by_asset_key, evaluation_id, last_observe_request_timestamp_by_asset_key, latest_evaluation_by_asset_key, latest_evaluation_timestamp) ==
    [latest_storage_id |-> latest_storage_id,
     handled_root_asset_keys |-> handled_root_asset_keys,
     handled_root_partitions_by_asset_key |-> handled_root_partitions_by_asset_key,
     evaluation_id |-> evaluation_id,
     last_observe_request_timestamp_by_asset_key |-> last_observe_request_timestamp_by_asset_key,
     latest_evaluation_by_asset_key |-> latest_evaluation_by_asset_key,
     latest_evaluation_timestamp |-> latest_evaluation_timestamp]

\* the empty dict
EmptyMap == [k \in {} |-> 0]

empty == AssetDaemonCursor(None, {}, EmptyMap, 0, EmptyMap, EmptyMap, None)

\* dict.get(key) with None for a missing key
MapGet(m, key) == IF key \in DOMAIN m THEN Some(m[key]) ELSE None

was_previously_handled(self, asset_key) == asset_key \in self.handled_root_asset_keys

\* mutant: the handled root asset keys not consulted
asset_cursor_for_key_forgetful(self, asset_key, partitions_def) ==
    LET handled_partitions_subset == MapGet(self.handled_root_partitions_by_asset_key, asset_key)
        handled_subset ==
            IF handled_partitions_subset # None
            THEN PartitionedAssetSubset(asset_key, handled_partitions_subset[1])
            ELSE AssetSubset_empty(asset_key, partitions_def)
    IN AssetDaemonAssetCursor(asset_key, self.latest_storage_id,
            self.latest_evaluation_timestamp,
            MapGet(self.latest_evaluation_by_asset_key, asset_key),
            handled_subset)

asset_cursor_for_key(self, asset_key, partitions_def) ==
    LET handled_partitions_subset == MapGet(self.handled_root_partitions_by_asset_key, asset_key)
        handled_subset ==
            IF handled_partitions_subset # None
            THEN PartitionedAssetSubset(asset_key, handled_partitions_subset[1])
            ELSE IF asset_key \in self.handled_root_asset_keys
                 THEN BoolAssetSubset(asset_key, TRUE)
                 ELSE AssetSubset_empty(asset_key, partitions_def)
    IN AssetDaemonAssetCursor(asset_key, self.latest_storage_id,
            self.latest_evaluation_timestamp,
            MapGet(self.latest_evaluation_by_asset_key, asset_key),
            handled_subset)

\* lines 126-132: the observe request timestamps, the new requests merged in
merged_observe_request_timestamps(self, newly_observe_requested_asset_keys, observe_request_timestamp) ==
    [k \in DOMAIN self.last_observe_request_timestamp_by_asset_key
            \cup Range(newly_observe_requested_asset_keys) |->
        IF k \in Range(newly_observe_requested_asset_keys)
        THEN observe_request_timestamp
        ELSE self.last_observe_request_timestamp_by_asset_key[k]]

\* check.invariant(latest_storage_id >= self.latest_storage_id) raises
with_updates_fails(self, latest_storage_id) ==
    /\ Truthy(latest_storage_id) /\ Truthy(self.latest_storage_id)
    /\ ~(latest_storage_id[1] >= self.latest_storage_id[1])

\* mutant: empty evaluations stored too
stored_evaluations_unfiltered(evaluations) ==
    [k \in {evaluations[i].asset_key : i \in DOMAIN evaluations} |->
        evaluations[CHOOSE i \in DOMAIN evaluations :
            /\ evaluations[i].asset_key = k
            /\ \A j \in DOMAIN evaluations : evaluations[j].asset_key = k => j <= i]]

\* the dict comprehension over evaluations: a later evaluation of a key replaces an earlier one
stored_evaluations(evaluations) ==
    LET kept == {i \in DOMAIN evaluations : ~evaluations[i].is_empty}
    IN [k \in {evaluations[i].asset_key : i \in kept} |->
            evaluations[CHOOSE i \in kept :
                /\ evaluations[i].asset_key = k
                /\ \A j \in kept : evaluations[j].asset_key = k => j <= i]]

\* latest_storage_id or self.latest_storage_id
result_latest_storage_id(self, latest_storage_id) ==
    PyOr(latest_storage_id, self.latest_storage_id)

\* the set comprehension over asset_cursors
rebuilt_handled_root_asset_keys(cursors) ==
    {cursors[i].asset_key : i \in {j \in DOMAIN cursors :
        /\ ~cursors[j].materialized_requested_or_discarded_subset.is_partitioned
        /\ cursors[j].materialized_requested_or_discarded_subset.bool_value}}

\* mutant: the is_partitioned filter dropped
rebuilt_handled_root_partitions_unfiltered(cursors) ==
    [k \in {cursors[i].asset_key : i \in DOMAIN cursors} |->
        cursors[CHOOSE i \in DOMAIN cursors :
            /\ cursors[i].asset_key = k
            /\ \A j \in DOMAIN cursors : cursors[j].asset_key = k => j <= i
        ].materialized_requested_or_discarded_subset.subset_value]

\* the dict comprehension over asset_cursors: a later cursor of a key replaces an earlier one
rebuilt_handled_root_partitions_by_asset_key(cursors) ==
    LET partitioned == {i \in DOMAIN cursors :
            cursors[i].materialized_requested_or_discarded_subset.is_partitioned}
    IN [k \in {cursors[i].asset_key : i \in partitioned} |->
            cursors[CHOOSE i \in partitioned :
                /\ cursors[i].asset_key = k
                /\ \A j \in partitioned : cursors[j].asset_key = k => j <= i
            ].materialized_requested_or_discarded_subset.subset_value]

\* mutant: the counter never goes back
result_evaluation_id_max(self, evaluation_id) ==
    IF evaluation_id > self.evaluation_id THEN evaluation_id ELSE self.evaluation_id

\* evaluation_id=evaluation_id
result_evaluation_id(self, evaluation_id) == evaluation_id

\* mutant: the handled root asset keys merged into the prior ones instead of rebuilt
with_updates_merging(self, latest_storage_id, evaluation_id, newly_observe_requested_asset_keys, observe_request_timestamp, evaluations, evaluation_time, cursors) ==
    AssetDaemonCursor(
        result_latest_storage_id(self, latest_storage_id),
        self.handled_root_asset_keys \cup rebuilt_handled_root_asset_keys(cursors),
        rebuilt_handled_root_partitions_by_asset_key(cursors),
        result_evaluation_id(self, evaluation_id),
        merged_observe_request_timestamps(self, newly_observe_requested_asset_keys,
            observe_request_timestamp),
        stored_evaluations(evaluations),
        Some(evaluation_time))

with_updates(self, latest_storage_id, evaluation_id, newly_observe_requested_asset_keys, observe_request_timestamp, evaluations, evaluation_time, cursors) ==
    AssetDaemonCursor(
        result_latest_storage_id(self, latest_storage_id),
        rebuilt_handled_root_asset_keys(cursors),
        rebuilt_handled_root_partitions_by_asset_key(cursors),
        result_evaluation_id(self, evaluation_id),
        merged_observe_request_timestamps(self, newly_observe_requested_asset_keys,
            observe_request_timestamp),
        stored_evaluations(evaluations),
        Some(evaluation_time))

(***************************************************************************)
(* The wire formats.  A serialized cursor is its JSON document: a list     *)
(* (legacy) or a map (current) with string keys; a map may lack its        *)
(* optional fields.                                                        *)
(***************************************************************************)
ListDocument(items) == [shape |-> "list", items |-> items, fields |-> EmptyMap]

MapDocument(fields) == [shape |-> "map", items |-> <<>>, fields |-> fields]

\* dict.get(name, default)
FieldGet(fields, name, default) == IF name \in DOMAIN fields THEN fields[name] ELSE default

\* the key of dict m whose user string is s
KeyOfString(m, s) == CHOOSE key \in DOMAIN m : to_user_string(key) = s

\* the key string of dict m that parses to key
StringOfKey(m, key) == CHOOSE key_str \in DOMAIN m : from_user_string(key_str) = key

UserStrings(m) == {to_user_string(key) : key \in DOMAIN m}

ParsedKeys(m) == {from_user_string(key_str) : key_str \in DOMAIN m}

serialize(self) ==
    MapDocument(
        [latest_storage_id |-> self.latest_storage_id,
         handled_root_asset_keys |->
            SetToSeq({to_user_string(key) : key \in self.handled_root_asset_keys}),
         handled_root_partitions_by_asset_key |->
            [s \in UserStrings(self.handled_root_partitions_by_asset_key) |->
                subset_serialize(self.handled_root_partitions_by_asset_key[
                    KeyOfString(self.handled_root_partitions_by_asset_key, s)])],
         evaluation_id |-> self.evaluation_id,
         last_observe_request_timestamp_by_asset_key |->
            [s \in UserStrings(self.last_observe_request_timestamp_by_asset_key) |->
                self.last_observe_request_timestamp_by_asset_key[
                    KeyOfString(self.last_observe_request_timestamp_by_asset_key, s)]],
         latest_evaluation_by_asset_key |->
            [s \in UserStrings(self.latest_evaluation_by_asset_key) |->
                serialize_value(self.latest_evaluation_by_asset_key[
                    KeyOfString(self.latest_evaluation_by_asset_key, s)])],
         latest_evaluation_timestamp |-> self.latest_evaluation_timestamp])

\* the serialized partitions map of a document of either shape
serialized_partitions(data) ==
    IF data.shape = "list" THEN data.items[3]
    ELSE data.fields.handled_root_partitions_by_asset_key

\* mutant: a window starting at the start boundary counts as before it
decoded_subset_inclusive(partitions_def, serialized_subset) ==
    IF deserialize_subset_fails(partitions_def, serialized_subset)
    THEN empty_subset(partitions_def)
    ELSE LET subset == deserialize_subset(partitions_def, serialized_subset)
         IN IF /\ subset.kind = "time_window"
               /\ partitions_def.kind = "time_window"
               /\ \E time_window \in included_time_windows(subset) :
                      time_window <= partitions_def.start
            THEN empty_subset(partitions_def)
            ELSE subset

\* the subset from_serialized keeps for one entry of the serialized partitions map
decoded_subset(partitions_def, serialized_subset) ==
    IF deserialize_subset_fails(partitions_def, serialized_subset)
    THEN empty_subset(partitions_def)
    ELSE LET subset == deserialize_subset(partitions_def, serialized_subset)
         IN IF /\ subset.kind = "time_window"
               /\ partitions_def.kind = "time_window"
               /\ \E time_window \in included_time_windows(subset) :
                      time_window < partitions_def.start
            THEN empty_subset(partitions_def)
            ELSE subset

\* mutant: only the root assets kept
kept_partition_keys_roots(serialized, graph) ==
    {key \in ParsedKeys(serialized) :
        /\ key \in graph.root_asset_keys
        /\ get_partitions_def(graph, key) # NoPartitionsDef}

\* the keys of the serialized partitions map that from_serialized keeps
kept_partition_keys(serialized, graph) ==
    {key \in ParsedKeys(serialized) :
        /\ key \in graph.materializable_asset_keys
        /\ get_partitions_def(graph, key) # NoPartitionsDef}

\* mutant: a list of 4 refused
from_serialized_fails_but_3(data, graph) ==
    data.shape = "list" /\ Len(data.items) # 3

\* mutant: the failure of deserialize_subset not caught
from_serialized_fails_uncaught(data, graph) ==
    \/ data.shape = "list" /\ Len(data.items) \notin {3, 4}
    \/ /\ ~(data.shape = "list" /\ Len(data.items) \notin {3, 4})
       /\ \E key \in kept_partition_keys(serialized_partitions(data), graph) :
            deserialize_subset_fails(get_partitions_def(graph, key),
                serialized_partitions(data)[StringOfKey(serialized_partitions(data), key)])

\* from_serialized raises: check.invariant(len(data) in [3, 4]); the failure of
\* deserialize_subset is caught
from_serialized_fails(data, graph) ==
    data.shape = "list" /\ Len(data.items) \notin {3, 4}

from_serialized(data, graph) ==
    LET legacy == data.shape = "list"
        latest_storage_id ==
            IF legacy THEN data.items[1] ELSE data.fields.latest_storage_id
        serialized_handled_root_asset_keys ==
            IF legacy THEN data.items[2] ELSE data.fields.handled_root_asset_keys
        serialized_handled_root_partitions_by_asset_key ==
            IF legacy THEN data.items[3]
            ELSE data.fields.handled_root_partitions_by_asset_key
        evaluation_id ==
            IF legacy THEN (IF Len(data.items) = 4 THEN data.items[4] ELSE 0)
            ELSE data.fields.evaluation_id
        serialized_last_observe_request_timestamp_by_asset_key ==
            IF legacy THEN EmptyMap
            ELSE FieldGet(data.fields, "last_observe_request_timestamp_by_asset_key", EmptyMap)
        serialized_latest_evaluation_by_asset_key ==
            IF legacy THEN EmptyMap
            ELSE FieldGet(data.fields, "latest_evaluation_by_asset_key", EmptyMap)
        latest_evaluation_timestamp ==
            IF legacy THEN Some(0)
            ELSE FieldGet(data.fields, "latest_evaluation_timestamp", Some(0))
        handled_root_partitions_by_asset_key ==
            [key \in kept_partition_keys(serialized_handled_root_partitions_by_asset_key, graph) |->
                decoded_subset(get_partitions_def(graph, key),
                    serialized_handled_root_partitions_by_asset_key[
                        StringOfKey(serialized_handled_root_partitions_by_asset_key, key)])]
    IN AssetDaemonCursor(
        latest_storage_id,
        {from_user_string(key_str) : key_str \in Range(serialized_handled_root_asset_keys)},
        handled_root_partitions_by_asset_key,
        evaluation_id,
        [key \in ParsedKeys(serialized_last_observe_request_timestamp_by_asset_key) |->
            serialized_last_observe_request_timestamp_by_asset_key[
                StringOfKey(serialized_last_observe_request_timestamp_by_asset_key, key)]],
        [key \in ParsedKeys(serialized_latest_evaluation_by_asset_key) |->
            deserialize_value(serialized_latest_evaluation_by_asset_key[
                StringOfKey(serialized_latest_evaluation_by_asset_key, key)])],
        latest_evaluation_timestamp)

(***************************************************************************)
(* The operations, as actions.  last records the operation that ran, with  *)
(* what it was called on and whether it raised: index is the position of   *)
(* the asset cursor AssetDaemonAssetCursor.with_updates was called on,     *)
(* latest_storage_id, evaluation_id and evaluations are arguments of       *)
(* AssetDaemonCursor.with_updates.  An operation that raises returns       *)
(* nothing, so it leaves the rest of the state alone.                      *)
(***************************************************************************)
Call(op, error, index, latest_storage_id, evaluation_id, evaluations) ==
    [op |-> op, error |-> error, index |-> index,
     latest_storage_id |-> latest_storage_id, evaluation_id |-> evaluation_id,
     evaluations |-> evaluations]

Ran(op, error) == Call(op, error, 0, None, 0, <<>>)

\* AssetDaemonCursor.asset_cursor_for_key, its result collected for the tick
AssetCursorForKey(asset_key, partitions_def) ==
    /\ Len(asset_cursors) < MaxCursors
    /\ asset_cursors' = Append(asset_cursors,
            asset_cursor_for_key(cursor, asset_key, partitions_def))
    /\ last' = Ran("asset_cursor_for_key", "none")
    /\ UNCHANGED <<cursor, stored>>

\* AssetDaemonAssetCursor.with_updates on the i-th collected asset cursor
AssetWithUpdates(i, newly_materialized_subset, requested, discarded) ==
    /\ i \in DOMAIN asset_cursors
    /\ IF asset_with_updates_fails(asset_cursors[i], asset_graph,
                newly_materialized_subset, requested, discarded)
       THEN /\ last' = Call("asset_with_updates", "CheckError", i, None, 0, <<>>)
            /\ UNCHANGED <<cursor, asset_cursors, stored>>
       ELSE /\ asset_cursors' = [asset_cursors EXCEPT ![i] =
                    asset_with_updates(asset_cursors[i], asset_graph,
                        newly_materialized_subset, requested, discarded)]
            /\ last' = Call("asset_with_updates", "none", i, None, 0, <<>>)
            /\ UNCHANGED <<cursor, stored>>

\* AssetDaemonCursor.with_updates, folding the collected asset cursors back
WithUpdates(latest_storage_id, evaluation_id, newly_observe_requested_asset_keys, observe_request_timestamp, evaluations, evaluation_time) ==
    IF with_updates_fails(cursor, latest_storage_id)
    THEN /\ last' = Call("with_updates", "CheckError", 0,
                latest_storage_id, evaluation_id, evaluations)
         /\ UNCHANGED <<cursor, asset_cursors, stored>>
    ELSE /\ cursor' = with_updates(cursor, latest_storage_id, evaluation_id,
                newly_observe_requested_asset_keys, observe_request_timestamp,
                evaluations, evaluation_time, asset_cursors)
         /\ asset_cursors' = <<>>
         /\ last' = Call("with_updates", "none", 0,
                latest_storage_id, evaluation_id, evaluations)
         /\ UNCHANGED stored

\* AssetDaemonCursor.serialize, the result persisted
Serialize ==
    /\ stored' = serialize(cursor)
    /\ last' = Ran("serialize", "none")
    /\ UNCHANGED <<cursor, asset_cursors>>

\* AssetDaemonCursor.from_serialized on the persisted document
FromSerialized ==
    IF from_serialized_fails(stored, asset_graph)
    THEN /\ last' = Ran("from_serialized", "CheckError")
         /\ UNCHANGED <<cursor, asset_cursors, stored>>
    ELSE /\ cursor' = from_serialized(stored, asset_graph)
         /\ last' = Ran("from_serialized", "none")
         /\ UNCHANGED <<asset_cursors, stored>>

(***************************************************************************)
(* The inputs the operations are given.                                    *)
(***************************************************************************)
GraphKeys == asset_graph.materializable_asset_keys

\* the partition keys of an asset under the graph's partitions definition
\* (None for an unpartitioned asset, the windows from start on for time windows)
partition_keys_of(asset_key) ==
    LET partitions_def == get_partitions_def(asset_graph, asset_key)
    IN IF partitions_def = NoPartitionsDef THEN {None}
       ELSE {Some(pk) : pk \in {k \in PartitionKeys : k >= partitions_def.start}}

\* the (asset, partition) pairs a tick reports for one asset
AssetPartitions(asset_key) ==
    {AssetKeyPartitionKey(asset_key, pk) : pk \in partition_keys_of(asset_key)}

\* the partitions definitions a caller hands to asset_cursor_for_key
CallerPartitionsDefs(asset_key) ==
    {get_partitions_def(asset_graph, asset_key), NoPartitionsDef, TimeWindowPartitionsDefinition}

\* the newly materialized subsets a tick reports for one asset
MaterializedSubsets(asset_key) ==
    {AssetSubset_empty(asset_key, get_partitions_def(asset_graph, asset_key))}
        \cup {from_asset_partitions_set(asset_key, get_partitions_def(asset_graph, asset_key), {ap}) :
                ap \in AssetPartitions(asset_key)}

\* the requested and the discarded sets a tick reports for one asset
PartitionSets(asset_key) == {{}} \cup {{ap} : ap \in AssetPartitions(asset_key)}

TickEvaluations ==
    {Evaluation(<<"a">>, TRUE), Evaluation(<<"a">>, FALSE),
     Evaluation(<<"p">>, TRUE), Evaluation(<<"p">>, FALSE), Evaluation(<<"d">>, FALSE)}

EvaluationSeqs == SeqsUpTo(TickEvaluations, MaxEvaluations)

ObserveRequests == {<<>>, << <<"o">> >>}

(***************************************************************************)
(* Spec: the ticks of the daemon.  A tick derives asset cursors from the   *)
(* cursor, updates them, and folds them back.                              *)
(***************************************************************************)
Init ==
    /\ cursor = empty
    /\ asset_cursors = <<>>
    /\ stored = serialize(empty)
    /\ last = Ran("empty", "none")

Next ==
    \/ \E asset_key \in GraphKeys :
            \E partitions_def \in CallerPartitionsDefs(asset_key) :
                AssetCursorForKey(asset_key, partitions_def)
    \/ \E i \in DOMAIN asset_cursors :
            \E newly_materialized_subset \in MaterializedSubsets(asset_cursors[i].asset_key),
               requested \in PartitionSets(asset_cursors[i].asset_key) :
                    AssetWithUpdates(i, newly_materialized_subset, requested, {})
    \/ WithUpdates(None, 0, <<>>, 0, <<>>, 0)

Spec == Init /\ [][Next]_vars

(***************************************************************************)
(* SpecUpdates: AssetDaemonCursor.with_updates called again and again,     *)
(* from a cursor loaded from a persisted document, with every storage id,  *)
(* evaluation id, observe request and tick time of the bounds.             *)
(***************************************************************************)
StartDocuments ==
    {MapDocument([latest_storage_id |-> latest_storage_id,
                  handled_root_asset_keys |-> <<>>,
                  handled_root_partitions_by_asset_key |-> EmptyMap,
                  evaluation_id |-> 0]) :
        latest_storage_id \in Optional(StorageIds)}

InitUpdates ==
    /\ cursor \in {from_serialized(document, asset_graph) : document \in StartDocuments}
    /\ asset_cursors = <<>>
    /\ stored = serialize(empty)
    /\ last = Ran("from_serialized", "none")

NextUpdates ==
    \E latest_storage_id \in Optional(StorageIds), evaluation_id \in EvaluationIds,
       newly_observe_requested_asset_keys \in ObserveRequests, now \in Times :
            WithUpdates(latest_storage_id, evaluation_id,
                newly_observe_requested_asset_keys, now, <<>>, now)

SpecUpdates == InitUpdates /\ [][NextUpdates]_vars

(***************************************************************************)
(* SpecEvaluations: AssetDaemonCursor.with_updates called again and again  *)
(* with every list of evaluations of the bounds.                           *)
(***************************************************************************)
NextEvaluations ==
    \E evaluation_id \in EvaluationIds, now \in Times, evaluations \in EvaluationSeqs :
        WithUpdates(None, evaluation_id, <<>>, now, evaluations, now)

SpecEvaluations == Init /\ [][NextEvaluations]_vars

(***************************************************************************)
(* SpecWire: persisted documents of both shapes loaded with                *)
(* from_serialized, and cursors persisted with serialize and loaded        *)
(* again.  The documents were written under any partitions definitions,    *)
(* for any assets.                                                         *)
(***************************************************************************)
SubsetKinds == {"time_window", "static"}

SerializedSubsets ==
    {[format |-> format, windows |-> windows] :
        format \in SubsetKinds, windows \in SUBSET PartitionKeys}

\* serialized partitions maps: of no asset, of one, and of "p" and "d"
SerializedPartitionsMaps ==
    {EmptyMap}
        \cup UNION {[{s} -> SerializedSubsets] : s \in KeyStrings}
        \cup {[s \in {"p", "d"} |->
                IF s = "p" THEN serialized_p ELSE [format |-> "static", windows |-> {0}]] :
                    serialized_p \in SerializedSubsets}

SerializedKeyLists == {<<>>, <<"a">>, <<"p", "a">>}

LegacyLengths == 2..5

LegacyDocuments ==
    {ListDocument(SubSeq(<<latest_storage_id, keys, partitions, evaluation_id, 0>>, 1, n)) :
        latest_storage_id \in Optional(StorageIds), keys \in SerializedKeyLists,
        partitions \in SerializedPartitionsMaps, evaluation_id \in EvaluationIds,
        n \in LegacyLengths}

RequiredFields ==
    {[latest_storage_id |-> latest_storage_id, handled_root_asset_keys |-> keys,
      handled_root_partitions_by_asset_key |-> partitions, evaluation_id |-> evaluation_id] :
        latest_storage_id \in Optional(StorageIds), keys \in SerializedKeyLists,
        partitions \in {EmptyMap, [s \in {"p"} |-> [format |-> "time_window", windows |-> {1}]]},
        evaluation_id \in EvaluationIds}

\* a map document may lack each of its three optional fields
OptionalFields ==
    {[name \in names |->
        CASE name = "last_observe_request_timestamp_by_asset_key" -> observed
          [] name = "latest_evaluation_by_asset_key" -> evaluated
          [] OTHER -> timestamp] :
        names \in SUBSET {"last_observe_request_timestamp_by_asset_key",
                          "latest_evaluation_by_asset_key", "latest_evaluation_timestamp"},
        observed \in {[s \in {"o"} |-> MaxTime]},
        evaluated \in {[s \in {"p"} |-> serialize_value(Evaluation(<<"p">>, FALSE))]},
        timestamp \in Optional(Times)}

\* the record with the fields of both
Merged(r1, r2) ==
    [name \in DOMAIN r1 \cup DOMAIN r2 |-> IF name \in DOMAIN r1 THEN r1[name] ELSE r2[name]]

MapDocuments ==
    {MapDocument(Merged(required, optional)) :
        required \in RequiredFields, optional \in OptionalFields}

PartitionsSubsets ==
    {[kind |-> kind, partition_keys |-> keys] : kind \in SubsetKinds, keys \in SUBSET PartitionKeys}

HandledPartitionsMaps ==
    {EmptyMap}
        \cup UNION {[{key} -> PartitionsSubsets] : key \in GraphKeys}
        \cup {[key \in {<<"p">>, <<"d">>} |->
                IF key = <<"p">> THEN subset_p ELSE [kind |-> "static", partition_keys |-> {0}]] :
                    subset_p \in PartitionsSubsets}

\* cursors as ticks leave them, under the graph or under an earlier one
BuiltCursors ==
    {AssetDaemonCursor(scalars[1], keys, partitions, scalars[2], scalars[3], scalars[4], timestamp) :
        scalars \in {<<None, 0, EmptyMap, EmptyMap>>,
                     <<Some(MaxStorageId), MaxEvaluationId, [k \in {<<"o">>} |-> MaxTime],
                       [k \in {<<"p">>} |-> Evaluation(<<"p">>, FALSE)]>>},
        keys \in {{}, {<<"a">>}},
        partitions \in HandledPartitionsMaps,
        timestamp \in Optional(Times)}

InitWire ==
    /\ asset_cursors = <<>>
    /\ \/ /\ stored \in LegacyDocuments \cup MapDocuments
          /\ cursor = empty
          /\ last = Ran("empty", "none")
       \/ /\ stored = serialize(empty)
          /\ cursor \in BuiltCursors
          /\ last = Ran("with_updates", "none")

NextWire == Serialize \/ FromSerialized

SpecWire == InitWire /\ [][NextWire]_vars

(***************************************************************************)
(* SpecAsset: AssetDaemonAssetCursor.with_updates called again and again   *)
(* on one asset cursor, derived from a cursor of an earlier tick, with the *)
(* materialized, requested and discarded partitions all free.              *)
(***************************************************************************)
InitAsset ==
    /\ cursor \in {c \in BuiltCursors :
            c.latest_storage_id = None /\ c.latest_evaluation_timestamp = None}
    /\ \E asset_key \in GraphKeys :
            \E partitions_def \in CallerPartitionsDefs(asset_key) :
                asset_cursors = <<asset_cursor_for_key(cursor, asset_key, partitions_def)>>
    /\ stored = serialize(empty)
    /\ last = Ran("asset_cursor_for_key", "none")

NextAsset ==
    \E newly_materialized_subset \in MaterializedSubsets(asset_cursors[1].asset_key),
       requested \in PartitionSets(asset_cursors[1].asset_key),
       discarded \in PartitionSets(asset_cursors[1].asset_key) :
            AssetWithUpdates(1, newly_materialized_subset, requested, discarded)

SpecAsset == InitAsset /\ [][NextAsset]_vars

(***************************************************************************)
(* C1.  Along AssetDaemonCursor.with_updates calls that pass a non-null    *)
(* latest_storage_id, the cursor's latest_storage_id never decreases, and  *)
(* a call whose latest_storage_id is lower than the cursor's non-null      *)
(* latest_storage_id raises instead of returning a cursor.                 *)
(***************************************************************************)
C1_StorageIdMonotonic ==
    [][(last'.op = "with_updates" /\ last'.latest_storage_id # None)
        => /\ (cursor.latest_storage_id # None /\ cursor'.latest_storage_id # None)
                => cursor'.latest_storage_id[1] >= cursor.latest_storage_id[1]
           /\ (/\ cursor.latest_storage_id # None
               /\ last'.latest_storage_id[1] < cursor.latest_storage_id[1])
                => (last'.error = "CheckError" /\ cursor' = cursor)]_vars

(***************************************************************************)
(* C2.  After any AssetDaemonCursor.with_updates call, no asset key is     *)
(* both in handled_root_asset_keys and a key of                            *)
(* handled_root_partitions_by_asset_key.                                   *)
(***************************************************************************)
C2_MutuallyExclusive ==
    (last.op = "with_updates" /\ last.error = "none")
        => cursor.handled_root_asset_keys
              \cap DOMAIN cursor.handled_root_partitions_by_asset_key = {}

(***************************************************************************)
(* C2, amended.  After an AssetDaemonCursor.with_updates call whose        *)
(* asset_cursors hold no two cursors of one asset key that differ in       *)
(* whether their subset is partitioned, no asset key is both in            *)
(* handled_root_asset_keys and a key of                                    *)
(* handled_root_partitions_by_asset_key.                                   *)
(***************************************************************************)
C2_MutuallyExclusiveOneKind ==
    [][(/\ last'.op = "with_updates" /\ last'.error = "none"
        /\ \A i, j \in DOMAIN asset_cursors :
                asset_cursors[i].asset_key = asset_cursors[j].asset_key
                    => asset_cursors[i].materialized_requested_or_discarded_subset.is_partitioned
                        = asset_cursors[j].materialized_requested_or_discarded_subset.is_partitioned)
        => cursor'.handled_root_asset_keys
              \cap DOMAIN cursor'.handled_root_partitions_by_asset_key = {}]_vars

C2_Witness ==
    /\ last.op = "with_updates" /\ last.error = "none"
    /\ cursor.handled_root_asset_keys # {}
    /\ DOMAIN cursor.handled_root_partitions_by_asset_key # {}
    /\ cursor.handled_root_asset_keys
          \cap DOMAIN cursor.handled_root_partitions_by_asset_key = {}

(***************************************************************************)
(* C4.  The cursor AssetDaemonCursor.with_updates returns stores no empty  *)
(* evaluation: every stored value is a non-empty evaluation of the         *)
(* evaluations argument, stored under its own asset key, and an asset      *)
(* whose evaluations in the argument are empty is not a key of             *)
(* latest_evaluation_by_asset_key.                                         *)
(***************************************************************************)
C4_NoEmptyEvaluationStored ==
    (last.op = "with_updates" /\ last.error = "none")
        => LET latest == cursor.latest_evaluation_by_asset_key
               passed == Range(last.evaluations)
           IN /\ \A k \in DOMAIN latest :
                    /\ ~latest[k].is_empty
                    /\ latest[k] \in passed
                    /\ latest[k].asset_key = k
              /\ \A k \in {e.asset_key : e \in passed} :
                    (\A e \in passed : e.asset_key = k => e.is_empty)
                        => k \notin DOMAIN latest
              /\ \A e \in passed : ~e.is_empty => e.asset_key \in DOMAIN latest

C4_Witness ==
    /\ last.op = "with_updates" /\ last.error = "none"
    /\ Evaluation(<<"a">>, TRUE) \in Range(last.evaluations)
    /\ Evaluation(<<"p">>, FALSE) \in Range(last.evaluations)
    /\ DOMAIN cursor.latest_evaluation_by_asset_key = {<<"p">>}

(***************************************************************************)
(* C5.  AssetDaemonAssetCursor.with_updates on a cursor whose asset is     *)
(* not a root of the graph returns the cursor it was called on, whatever   *)
(* the subsets passed.                                                     *)
(***************************************************************************)
C5_NonRootUnchanged ==
    [][(/\ last'.op = "asset_with_updates"
        /\ asset_cursors[last'.index].asset_key \notin asset_graph.root_asset_keys)
        => (last'.error = "none" /\ asset_cursors' = asset_cursors)]_vars

C5_Witness ==
    /\ last.op = "asset_with_updates" /\ last.error = "none"
    /\ asset_cursors[last.index].asset_key \notin asset_graph.root_asset_keys

(***************************************************************************)
(* C6.  For a root asset, AssetDaemonAssetCursor.with_updates is           *)
(* idempotent and commutative on the handled subset: the same update       *)
(* twice gives what it gives once, two updates give the same in either     *)
(* order, and what they give is the prior subset joined with every         *)
(* partition the updates name.                                             *)
(***************************************************************************)
Updates(asset_key) ==
    MaterializedSubsets(asset_key) \X PartitionSets(asset_key) \X PartitionSets(asset_key)

Updated(c, u) == asset_with_updates(c, asset_graph, u[1], u[2], u[3])

Named(u) == asset_partitions(u[1]) \cup u[2] \cup u[3]

\* r is c with the partitions named added to its handled subset
HandledJoined(r, c, named) ==
    LET before == c.materialized_requested_or_discarded_subset
        after == r.materialized_requested_or_discarded_subset
    IN /\ r = [c EXCEPT !.materialized_requested_or_discarded_subset = after]
       /\ after.asset_key = before.asset_key
       /\ after.is_partitioned = before.is_partitioned
       /\ IF before.is_partitioned
          THEN /\ after.subset_value.kind = before.subset_value.kind
               /\ after.subset_value.partition_keys =
                    before.subset_value.partition_keys
                        \cup {ap.partition_key[1] : ap \in {x \in named : x.partition_key # None}}
          ELSE after.bool_value = (before.bool_value \/ named # {})

C6_UnionIdempotentCommutative ==
    (/\ last.op = "asset_with_updates" /\ last.error = "none"
     /\ asset_cursors[last.index].asset_key \in asset_graph.root_asset_keys)
        => LET c == asset_cursors[last.index]
           IN \A u1, u2 \in Updates(c.asset_key) :
                /\ ~asset_with_updates_fails(c, asset_graph, u1[1], u1[2], u1[3])
                /\ Updated(Updated(c, u1), u1) = Updated(c, u1)
                /\ Updated(Updated(c, u1), u2) = Updated(Updated(c, u2), u1)
                /\ HandledJoined(Updated(Updated(c, u1), u2), c, Named(u1) \cup Named(u2))

C6_Witness ==
    /\ last.op = "asset_with_updates" /\ last.error = "none"
    /\ asset_cursors[last.index].asset_key \in asset_graph.root_asset_keys
    /\ asset_cursors[last.index].materialized_requested_or_discarded_subset.is_partitioned
    /\ asset_cursors[last.index].materialized_requested_or_discarded_subset
            .subset_value.partition_keys # {}

(***************************************************************************)
(* C7.  The evaluation_id of the cursor is strictly greater after every    *)
(* AssetDaemonCursor.with_updates call than it was before the call.        *)
(***************************************************************************)
C7_EvaluationIdIncreases ==
    [][(last'.op = "with_updates" /\ last'.error = "none")
            => cursor'.evaluation_id > cursor.evaluation_id]_vars

(***************************************************************************)
(* C7, amended.  The evaluation_id of the cursor with_updates returns is   *)
(* the evaluation_id argument of the call, whatever the evaluation_id of   *)
(* the cursor it was computed from.                                        *)
(***************************************************************************)
C7_EvaluationIdIsArgument ==
    [][(last'.op = "with_updates" /\ last'.error = "none")
            => cursor'.evaluation_id = last'.evaluation_id]_vars

C7_Witness ==
    /\ last.op = "with_updates" /\ last.error = "none"
    /\ cursor.evaluation_id = 0
    /\ cursor.latest_storage_id # None

(***************************************************************************)
(* C3.  A valid cursor, serialized and loaded against the graph it was     *)
(* built against, comes back equal in every field; so does the empty       *)
(* cursor.  A cursor is valid for a graph when every key of                *)
(* handled_root_partitions_by_asset_key is a materializable asset with a   *)
(* partitions definition and its subset is a subset of that definition.    *)
(***************************************************************************)
ValidSubset(partitions_def, subset) ==
    /\ subset.kind = partitions_def.kind
    /\ partitions_def.kind = "time_window"
        => \A time_window \in included_time_windows(subset) :
                time_window >= partitions_def.start

ValidCursor(c, graph) ==
    \A key \in DOMAIN c.handled_root_partitions_by_asset_key :
        /\ key \in graph.materializable_asset_keys
        /\ get_partitions_def(graph, key) # NoPartitionsDef
        /\ ValidSubset(get_partitions_def(graph, key), c.handled_root_partitions_by_asset_key[key])

C3_RoundTrip ==
    [][(/\ last.op = "serialize" /\ last'.op = "from_serialized"
        /\ ValidCursor(cursor, asset_graph))
        => /\ last'.error = "none"
           /\ cursor'.latest_storage_id = cursor.latest_storage_id
           /\ cursor'.handled_root_asset_keys = cursor.handled_root_asset_keys
           /\ cursor'.handled_root_partitions_by_asset_key
                = cursor.handled_root_partitions_by_asset_key
           /\ cursor'.evaluation_id = cursor.evaluation_id
           /\ cursor'.last_observe_request_timestamp_by_asset_key
                = cursor.last_observe_request_timestamp_by_asset_key
           /\ cursor'.latest_evaluation_by_asset_key = cursor.latest_evaluation_by_asset_key
           /\ cursor'.latest_evaluation_timestamp = cursor.latest_evaluation_timestamp
           /\ cursor' = cursor]_vars

C3_Witness ==
    /\ last.op = "from_serialized" /\ last.error = "none"
    /\ stored = serialize(cursor)
    /\ ValidCursor(cursor, asset_graph)
    /\ DOMAIN cursor.handled_root_partitions_by_asset_key = {<<"p">>, <<"d">>}
    /\ cursor.handled_root_partitions_by_asset_key[<<"p">>].partition_keys # {}
    /\ cursor.handled_root_asset_keys # {}
    /\ cursor.latest_evaluation_by_asset_key # EmptyMap
    /\ cursor.last_observe_request_timestamp_by_asset_key # EmptyMap
    /\ cursor.latest_evaluation_timestamp = None

(***************************************************************************)
(* C8.  from_serialized accepts exactly the legacy lists of 3 or 4         *)
(* elements.  From [id, keys, partitions] it builds a cursor with          *)
(* latest_storage_id id, handled_root_asset_keys the listed keys and       *)
(* evaluation_id 0; from a list of 4, evaluation_id is the fourth          *)
(* element; both leave the observe timestamps and the evaluations empty.   *)
(* A list of another length raises and no cursor is built.                 *)
(***************************************************************************)
C8_LegacyList ==
    [][(last'.op = "from_serialized" /\ stored.shape = "list")
        => IF Len(stored.items) \in {3, 4}
           THEN /\ last'.error = "none"
                /\ cursor'.latest_storage_id = stored.items[1]
                /\ cursor'.handled_root_asset_keys =
                        {from_user_string(key_str) : key_str \in Range(stored.items[2])}
                /\ cursor'.evaluation_id =
                        (IF Len(stored.items) = 4 THEN stored.items[4] ELSE 0)
                /\ cursor'.last_observe_request_timestamp_by_asset_key = EmptyMap
                /\ cursor'.latest_evaluation_by_asset_key = EmptyMap
           ELSE /\ last'.error = "CheckError"
                /\ cursor' = cursor]_vars

C8_Witness ==
    /\ last.op = "from_serialized" /\ last.error = "none"
    /\ stored.shape = "list" /\ Len(stored.items) = 4
    /\ cursor.evaluation_id = MaxEvaluationId
    /\ cursor.latest_storage_id = Some(MaxStorageId)
    /\ cursor.handled_root_asset_keys = {<<"a">>, <<"p">>}

(***************************************************************************)
(* C9.  When the serialized subset of a partitioned, materializable asset  *)
(* does not decode under the asset's partitions definition,                *)
(* from_serialized still returns a cursor, the asset is mapped to the      *)
(* empty subset, and the other fields and entries are decoded as usual.    *)
(***************************************************************************)
\* the entries of the serialized partitions map that from_serialized decodes
DecodedEntries(data) == kept_partition_keys(serialized_partitions(data), asset_graph)

EntryOf(data, key) ==
    serialized_partitions(data)[StringOfKey(serialized_partitions(data), key)]

DecodeFails(data, key) ==
    deserialize_subset_fails(get_partitions_def(asset_graph, key), EntryOf(data, key))

\* the document with the entries that do not decode left out
WithoutFailing(data) ==
    LET kept == {s \in DOMAIN serialized_partitions(data) :
                    from_user_string(s) \in DecodedEntries(data)
                        => ~DecodeFails(data, from_user_string(s))}
        partitions == [s \in kept |-> serialized_partitions(data)[s]]
    IN IF data.shape = "list"
       THEN [data EXCEPT !.items[3] = partitions]
       ELSE [data EXCEPT !.fields.handled_root_partitions_by_asset_key = partitions]

C9_DecodeFailureGivesEmptySubset ==
    (/\ last.op = "from_serialized"
     /\ ~(stored.shape = "list" /\ Len(stored.items) \notin {3, 4})
     /\ \E key \in DecodedEntries(stored) : DecodeFails(stored, key))
        => /\ last.error = "none"
           /\ \A key \in DecodedEntries(stored) :
                DecodeFails(stored, key)
                    => /\ key \in DOMAIN cursor.handled_root_partitions_by_asset_key
                       /\ cursor.handled_root_partitions_by_asset_key[key]
                            = empty_subset(get_partitions_def(asset_graph, key))
           /\ LET usual == from_serialized(WithoutFailing(stored), asset_graph)
              IN /\ \A key \in DOMAIN usual.handled_root_partitions_by_asset_key :
                        /\ key \in DOMAIN cursor.handled_root_partitions_by_asset_key
                        /\ cursor.handled_root_partitions_by_asset_key[key]
                            = usual.handled_root_partitions_by_asset_key[key]
                 /\ [cursor EXCEPT !.handled_root_partitions_by_asset_key = EmptyMap]
                        = [usual EXCEPT !.handled_root_partitions_by_asset_key = EmptyMap]

C9_Witness ==
    /\ last.op = "from_serialized" /\ last.error = "none"
    /\ DecodedEntries(stored) = {<<"p">>, <<"d">>}
    /\ DecodeFails(stored, <<"p">>) /\ ~DecodeFails(stored, <<"d">>)
    /\ cursor.handled_root_partitions_by_asset_key[<<"p">>]
            = empty_subset(TimeWindowPartitionsDefinition)
    /\ cursor.handled_root_partitions_by_asset_key[<<"d">>].partition_keys # {}

(***************************************************************************)
(* C10.  When an asset's serialized subset decodes to a time-window subset *)
(* under a time-window partitions definition, from_serialized maps the     *)
(* asset to the empty subset if a window of the subset starts before the   *)
(* definition's start, and to the decoded subset if none does.             *)
(***************************************************************************)
C10_TimeWindowStartShift ==
    (/\ last.op = "from_serialized" /\ last.error = "none")
        => \A key \in DecodedEntries(stored) :
            LET partitions_def == get_partitions_def(asset_graph, key)
                serialized_subset == EntryOf(stored, key)
            IN (/\ partitions_def.kind = "time_window"
                /\ serialized_subset.format = "time_window")
                => cursor.handled_root_partitions_by_asset_key[key] =
                    IF \E window \in serialized_subset.windows : window < partitions_def.start
                    THEN [kind |-> "time_window", partition_keys |-> {}]
                    ELSE [kind |-> "time_window", partition_keys |-> serialized_subset.windows]

C10_Witness ==
    /\ last.op = "from_serialized" /\ last.error = "none"
    /\ <<"p">> \in DecodedEntries(stored)
    /\ EntryOf(stored, <<"p">>).format = "time_window"
    /\ 0 \in EntryOf(stored, <<"p">>).windows
    /\ 1 \in EntryOf(stored, <<"p">>).windows
    /\ cursor.handled_root_partitions_by_asset_key[<<"p">>].partition_keys = {}

(***************************************************************************)
(* SpecRebuild: ticks that start from a cursor loaded from its persisted   *)
(* document and pass AssetDaemonCursor.with_updates the asset cursors      *)
(* of any of the assets, of all of them or of none.  The document stays    *)
(* as it was persisted before the ticks.                                   *)
(***************************************************************************)
PersistedCursors ==
    {AssetDaemonCursor(None, keys, partitions, 0, EmptyMap, EmptyMap, None) :
        keys \in {{}, {<<"a">>}},
        partitions \in {EmptyMap} \cup
            {[k \in {<<"p">>} |-> subset_with_partition_keys(TimeWindowPartitionsDefinition, pks)] :
                pks \in SUBSET {pk \in PartitionKeys : pk >= TimeWindowPartitionsDefinition.start}}}

InitRebuild ==
    /\ stored \in {serialize(c) : c \in PersistedCursors}
    /\ cursor = from_serialized(stored, asset_graph)
    /\ asset_cursors = <<>>
    /\ last = Ran("from_serialized", "none")

NextRebuild ==
    \/ \E asset_key \in asset_graph.root_asset_keys :
            \E partitions_def \in CallerPartitionsDefs(asset_key) :
                AssetCursorForKey(asset_key, partitions_def)
    \/ \E i \in DOMAIN asset_cursors :
            \E requested \in PartitionSets(asset_cursors[i].asset_key) :
                AssetWithUpdates(i,
                    AssetSubset_empty(asset_cursors[i].asset_key,
                        get_partitions_def(asset_graph, asset_cursors[i].asset_key)),
                    requested, {})
    \/ WithUpdates(None, 0, <<>>, 0, <<>>, 0)

SpecRebuild == InitRebuild /\ [][NextRebuild]_vars

(***************************************************************************)
(* C11.  AssetDaemonCursor.with_updates rebuilds both handled collections  *)
(* from the asset cursors it is passed and from nothing else: the handled  *)
(* root asset keys are the keys of the passed cursors whose subset is      *)
(* unpartitioned and true, the handled partitions map has the keys of the  *)
(* passed cursors whose subset is partitioned, each with the subset of     *)
(* the (last) such cursor of that key, and a key that was handled before   *)
(* and has no cursor among those passed is in neither collection.          *)
(***************************************************************************)
PassedKeys(partitioned, b) ==
    {asset_cursors[i].asset_key : i \in {j \in DOMAIN asset_cursors :
        /\ asset_cursors[j].materialized_requested_or_discarded_subset.is_partitioned = partitioned
        /\ partitioned
            \/ asset_cursors[j].materialized_requested_or_discarded_subset.bool_value = b}}

\* the position of the last passed cursor of the key whose subset is partitioned
LastPartitioned(key) ==
    CHOOSE i \in DOMAIN asset_cursors :
        /\ asset_cursors[i].asset_key = key
        /\ asset_cursors[i].materialized_requested_or_discarded_subset.is_partitioned
        /\ \A j \in DOMAIN asset_cursors :
                (/\ asset_cursors[j].asset_key = key
                 /\ asset_cursors[j].materialized_requested_or_discarded_subset.is_partitioned)
                    => j <= i

C11_FullRebuild ==
    [][(last'.op = "with_updates" /\ last'.error = "none")
        => /\ cursor'.handled_root_asset_keys = PassedKeys(FALSE, TRUE)
           /\ DOMAIN cursor'.handled_root_partitions_by_asset_key = PassedKeys(TRUE, TRUE)
           /\ \A key \in PassedKeys(TRUE, TRUE) :
                cursor'.handled_root_partitions_by_asset_key[key] =
                    asset_cursors[LastPartitioned(key)]
                        .materialized_requested_or_discarded_subset.subset_value
           /\ \A key \in cursor.handled_root_asset_keys
                        \cup DOMAIN cursor.handled_root_partitions_by_asset_key :
                (\A i \in DOMAIN asset_cursors : asset_cursors[i].asset_key # key)
                    => /\ key \notin cursor'.handled_root_asset_keys
                       /\ key \notin DOMAIN cursor'.handled_root_partitions_by_asset_key]_vars

\* the persisted document lists "a" and a partition of "p" as handled, and the
\* cursor a tick left has neither: the tick passed no cursor for them
C11_Witness ==
    /\ last.op = "with_updates" /\ last.error = "none"
    /\ "a" \in Range(stored.fields.handled_root_asset_keys)
    /\ "p" \in DOMAIN stored.fields.handled_root_partitions_by_asset_key
    /\ cursor.handled_root_asset_keys = {}
    /\ cursor.handled_root_partitions_by_asset_key = EmptyMap

(***************************************************************************)
(* C12.  The cursor AssetDaemonCursor.with_updates returns has the         *)
(* latest_storage_id it was passed whenever one was passed, 0 included,    *)
(* and the prior cursor's latest_storage_id when None was passed.          *)
(***************************************************************************)
C12_StorageIdIsArgument ==
    [][(last'.op = "with_updates" /\ last'.error = "none")
        => IF last'.latest_storage_id # None
           THEN cursor'.latest_storage_id = last'.latest_storage_id
           ELSE cursor'.latest_storage_id = cursor.latest_storage_id]_vars

(***************************************************************************)
(* AssetDaemonCursor.get_evaluation_id_from_serialized: the evaluation id  *)
(* read off the document, None for a legacy list that has none.            *)
(***************************************************************************)
\* check.invariant(len(data) in [3, 4]) raises
get_evaluation_id_from_serialized_fails(data) ==
    data.shape = "list" /\ Len(data.items) \notin {3, 4}

\* mutant: a legacy list of 3 given the evaluation id from_serialized gives it
get_evaluation_id_from_serialized_zero(data) ==
    IF data.shape = "list"
    THEN (IF Len(data.items) = 4 THEN Some(data.items[4]) ELSE Some(0))
    ELSE Some(data.fields.evaluation_id)

get_evaluation_id_from_serialized(data) ==
    IF data.shape = "list"
    THEN (IF Len(data.items) = 4 THEN Some(data.items[4]) ELSE None)
    ELSE Some(data.fields.evaluation_id)

\* the record of a call that returned result
Returned(op, result) ==
    [op |-> op, error |-> "none", index |-> 0, latest_storage_id |-> None,
     evaluation_id |-> 0, evaluations |-> <<>>, result |-> result]

\* AssetDaemonCursor.get_evaluation_id_from_serialized on the persisted document
GetEvaluationIdFromSerialized ==
    /\ IF get_evaluation_id_from_serialized_fails(stored)
       THEN last' = Ran("get_evaluation_id_from_serialized", "CheckError")
       ELSE last' = Returned("get_evaluation_id_from_serialized",
                        get_evaluation_id_from_serialized(stored))
    /\ UNCHANGED <<cursor, asset_cursors, stored>>

(***************************************************************************)
(* SpecPeek: a persisted document of either shape, its evaluation id read  *)
(* with get_evaluation_id_from_serialized and the document loaded with     *)
(* from_serialized, in any order.                                          *)
(***************************************************************************)
InitPeek ==
    /\ stored \in LegacyDocuments \cup MapDocuments
    /\ cursor = empty
    /\ asset_cursors = <<>>
    /\ last = Ran("empty", "none")

NextPeek == GetEvaluationIdFromSerialized \/ FromSerialized

SpecPeek == InitPeek /\ [][NextPeek]_vars

(***************************************************************************)
(* C13.  On every document from_serialized accepts,                        *)
(* get_evaluation_id_from_serialized returns the evaluation_id of the      *)
(* cursor from_serialized builds, and it raises on exactly the legacy      *)
(* lists of a length other than 3 or 4.                                    *)
(***************************************************************************)
PeekRaisesOnBadLists ==
    last'.op = "get_evaluation_id_from_serialized"
        => (last'.error = "CheckError"
                <=> (stored.shape = "list" /\ Len(stored.items) \notin {3, 4}))

\* a step that completes a pair of calls on the document, one of each operation
PeekedAndLoaded ==
    /\ {last.op, last'.op} = {"get_evaluation_id_from_serialized", "from_serialized"}
    /\ last.error = "none" /\ last'.error = "none"

\* what get_evaluation_id_from_serialized returned in that pair
Peeked == IF last.op = "get_evaluation_id_from_serialized" THEN last.result ELSE last'.result

C13_PeekSameAsLoaded ==
    [][/\ PeekRaisesOnBadLists
       /\ PeekedAndLoaded => Peeked = Some(cursor'.evaluation_id)]_vars

(***************************************************************************)
(* C13, amended.  The two agree on legacy lists of 4 and on maps; on a     *)
(* legacy list of 3 get_evaluation_id_from_serialized returns None where   *)
(* from_serialized builds a cursor with evaluation_id 0.                   *)
(***************************************************************************)
C13_PeekAgreesButOnListsOf3 ==
    [][/\ PeekRaisesOnBadLists
       /\ PeekedAndLoaded
            => IF stored.shape = "list" /\ Len(stored.items) = 3
               THEN Peeked = None /\ cursor'.evaluation_id = 0
               ELSE Peeked = Some(cursor'.evaluation_id)]_vars

\* the document was loaded (a loaded legacy cursor has timestamp 0), then peeked
C13_Witness ==
    /\ last.op = "get_evaluation_id_from_serialized" /\ last.error = "none"
    /\ stored.shape = "list" /\ Len(stored.items) = 4
    /\ cursor.latest_evaluation_timestamp = Some(0)
    /\ cursor.evaluation_id = MaxEvaluationId
    /\ last.result = Some(MaxEvaluationId)

(***************************************************************************)
(* SpecContract: ticks of a caller that keeps the contract of              *)
(* AssetDaemonCursor.with_updates.  Each tick derives one asset cursor     *)
(* for every root asset of the graph, with the partitions definition the   *)
(* graph gives it, updates them with any materialized, requested and       *)
(* discarded partitions, and folds all of them back; between ticks the     *)
(* cursor may be persisted.                                                *)
(***************************************************************************)
DerivedKeys == {asset_cursors[i].asset_key : i \in DOMAIN asset_cursors}

NextContract ==
    \/ \E asset_key \in asset_graph.root_asset_keys \ DerivedKeys :
            AssetCursorForKey(asset_key, get_partitions_def(asset_graph, asset_key))
    \/ \E i \in DOMAIN asset_cursors :
            \E newly_materialized_subset \in MaterializedSubsets(asset_cursors[i].asset_key),
               requested \in PartitionSets(asset_cursors[i].asset_key),
               discarded \in PartitionSets(asset_cursors[i].asset_key) :
                    AssetWithUpdates(i, newly_materialized_subset, requested, discarded)
    \/ /\ DerivedKeys = asset_graph.root_asset_keys
       /\ WithUpdates(None, 0, <<>>, 0, <<>>, 0)
    \/ /\ asset_cursors = <<>>
       /\ Serialize

SpecContract == Init /\ [][NextContract]_vars

(***************************************************************************)
(* C14.  Under the contract the handled state never shrinks: a key in      *)
(* handled_root_asset_keys stays in it and a partition in a key's subset   *)
(* of handled_root_partitions_by_asset_key stays in that subset; and a     *)
(* tick whose updates are all empty reproduces both collections            *)
(* unchanged.                                                              *)
(***************************************************************************)
NeverShrinks ==
    /\ cursor.handled_root_asset_keys \subseteq cursor'.handled_root_asset_keys
    /\ \A key \in DOMAIN cursor.handled_root_partitions_by_asset_key :
        /\ key \in DOMAIN cursor'.handled_root_partitions_by_asset_key
        /\ cursor.handled_root_partitions_by_asset_key[key].partition_keys
                \subseteq cursor'.handled_root_partitions_by_asset_key[key].partition_keys

\* the asset cursor of a tick that updates the asset with empty sets
DerivedWithEmptyUpdates(asset_key) ==
    asset_with_updates(
        asset_cursor_for_key(cursor, asset_key, get_partitions_def(asset_graph, asset_key)),
        asset_graph,
        AssetSubset_empty(asset_key, get_partitions_def(asset_graph, asset_key)), {}, {})

\* a step that folds back a tick whose updates were all empty
FoldsEmptyTick ==
    /\ last'.op = "with_updates" /\ last'.error = "none"
    /\ \A i \in DOMAIN asset_cursors :
            asset_cursors[i] = DerivedWithEmptyUpdates(asset_cursors[i].asset_key)

C14_NeverShrinksAndEmptyTickUnchanged ==
    [][/\ NeverShrinks
       /\ FoldsEmptyTick
            => /\ cursor'.handled_root_asset_keys = cursor.handled_root_asset_keys
               /\ cursor'.handled_root_partitions_by_asset_key =
                    cursor.handled_root_partitions_by_asset_key]_vars

(***************************************************************************)
(* C14, amended.  The handled state never shrinks; a tick whose updates    *)
(* are all empty reproduces handled_root_asset_keys and every entry        *)
(* handled_root_partitions_by_asset_key already has, and gives each        *)
(* partitioned root asset that has no entry yet an entry with the empty    *)
(* subset.                                                                 *)
(***************************************************************************)
C14_NeverShrinksAndEmptyTickAddsEmptyEntries ==
    [][/\ NeverShrinks
       /\ FoldsEmptyTick
            => /\ cursor'.handled_root_asset_keys = cursor.handled_root_asset_keys
               /\ \A key \in DOMAIN cursor.handled_root_partitions_by_asset_key :
                    cursor'.handled_root_partitions_by_asset_key[key] =
                        cursor.handled_root_partitions_by_asset_key[key]
               /\ DOMAIN cursor'.handled_root_partitions_by_asset_key =
                    DOMAIN cursor.handled_root_partitions_by_asset_key
                        \cup {key \in asset_graph.root_asset_keys :
                                get_partitions_def(asset_graph, key) # NoPartitionsDef}
               /\ \A key \in DOMAIN cursor'.handled_root_partitions_by_asset_key
                                \ DOMAIN cursor.handled_root_partitions_by_asset_key :
                    cursor'.handled_root_partitions_by_asset_key[key] =
                        empty_subset(get_partitions_def(asset_graph, key))]_vars

\* the cursor persisted after an earlier tick had "a" and a partition of "p"
\* handled, and the cursor a later tick left still has them
C14_Witness ==
    /\ last.op = "with_updates" /\ last.error = "none"
    /\ "a" \in Range(stored.fields.handled_root_asset_keys)
    /\ "p" \in DOMAIN stored.fields.handled_root_partitions_by_asset_key
    /\ stored.fields.handled_root_partitions_by_asset_key["p"].windows # {}
    /\ <<"a">> \in cursor.handled_root_asset_keys
    /\ <<"p">> \in DOMAIN cursor.handled_root_partitions_by_asset_key
    /\ stored.fields.handled_root_partitions_by_asset_key["p"].windows
            \subseteq cursor.handled_root_partitions_by_asset_key[<<"p">>].partition_keys

====
